---- MODULE Spec2Model ----
(***************************************************************************)
(* State-machine model of ipk-mtrip (src/ipk-mtrip.cc): main, the          *)
(* argument parser, the interrupt handler and the two runtime modes,       *)
(* Reflector::init and Meter::init.                                        *)
(*                                                                         *)
(* A command-line word is a sequence of one-character strings, so that     *)
(* getopt, atoi and atof are computed character by character.  char is     *)
(* signed (x86-64) and getopt is the GNU one, which skips non-option words.*)
(***************************************************************************)
EXTENDS Integers, Sequences, FiniteSets, TLC

\* ------------------------------------------------------------------ bounds
\* number of option items after the mode word of a generated command line
MaxItems == 4
\* stand-in for sizeof(buffer) of Reflector::init (512 in the source)
BufferSize == 2
\* payload bytes are 0..MaxByte
MaxByte == 1
\* hosts that send datagrams to the reflector
MaxSender == 2
\* lines the operator types into the meter
MaxProbes == 3

\* ------------------------------------------------------- program constants
EXIT_SUCCESS == 0
EXIT_FAILURE == 1
\* argc below which argument_parser gives up
MinArgc == 4
\* exit(1) of the getopt switch
GetoptExitStatus == 1

\* ------------------------------------------------------------ the words
PROG    == <<".", "/", "i", "p", "k">>
METER   == <<"m", "e", "t", "e", "r">>
REFLECT == <<"r", "e", "f", "l", "e", "c", "t">>
PING    == <<"p", "i", "n", "g">>
DashDash == <<"-", "-">>

\* what getopt returns for -1
END == "end"
\* what getopt returns for '?'
QUESTION == "?"

\* "h:p:s:t:" and "p:"
METER_OPTSTRING   == <<"h", ":", "p", ":", "s", ":", "t", ":">>
REFLECT_OPTSTRING == <<"p", ":">>

Digits == <<"0", "1", "2", "3", "4", "5", "6", "7", "8", "9">>

IsDigit(ch) == \E k \in 1..Len(Digits) : Digits[k] = ch

DigitValue(ch) == (CHOOSE k \in 1..Len(Digits) : Digits[k] = ch) - 1

\* value and length of the leading run of decimal digits of s from position j
RECURSIVE DigitRun(_, _, _, _)
DigitRun(s, j, acc, n) ==
  IF j <= Len(s) /\ IsDigit(s[j])
  THEN DigitRun(s, j + 1, acc * 10 + DigitValue(s[j]), n + 1)
  ELSE [value |-> acc, count |-> n, next |-> j]

\* atoi(3): optional sign, then the leading digits; 0 when there are none
atoi(s) ==
  LET neg   == Len(s) >= 1 /\ s[1] = "-"
      start == IF Len(s) >= 1 /\ s[1] \in {"-", "+"} THEN 2 ELSE 1
      run   == DigitRun(s, start, 0, 0)
  IN IF neg THEN 0 - run.value ELSE run.value

RECURSIVE Pow10(_)
Pow10(n) == IF n = 0 THEN 1 ELSE 10 * Pow10(n - 1)

\* atof(3) as the fraction num/den: optional sign, digits, optional .digits;
\* 0 when no digit is there
atof(s) ==
  LET neg   == Len(s) >= 1 /\ s[1] = "-"
      start == IF Len(s) >= 1 /\ s[1] \in {"-", "+"} THEN 2 ELSE 1
      int   == DigitRun(s, start, 0, 0)
      dot   == int.next <= Len(s) /\ s[int.next] = "."
      frac  == IF dot THEN DigitRun(s, int.next + 1, 0, 0)
                      ELSE [value |-> 0, count |-> 0, next |-> int.next]
      den   == Pow10(frac.count)
      mag   == IF int.count + frac.count = 0 THEN 0
               ELSE int.value * den + frac.value
  IN [num |-> IF neg THEN 0 - mag ELSE mag, den |-> den]

\* static_cast<unsigned int>(int) stored into unsigned short: modulo 2^16
ToUnsignedShort(n) == n % 65536

\* static_cast<unsigned int>(int): the 32-bit pattern, kept in its signed
\* reading (a negative n is the unsigned value 2^32 + n)
ToUnsignedInt(n) == n

\* static_cast<size_t>(int): the 64-bit pattern, kept in its signed reading
\* (a negative n is the unsigned value 2^64 + n)
ToSizeT(n) == n

\* unsigned comparisons on a size_t pattern
SizeIsPositive(x) == x # 0
SizeExceedsPtrdiffMax(x) == x < 0

\* ---------------------------------------------------------------- getopt
\* argv is 1-based here: C's argv[k] is argv[k + 1], argc is Len(argv)
Arg(argv, k) == argv[k + 1]

IsOptionElement(tok) == Len(tok) >= 2 /\ tok[1] = "-" /\ tok # DashDash

HasOption(optstring, ch) ==
  ch # ":" /\ \E k \in 1..Len(optstring) : optstring[k] = ch

TakesArgument(optstring, ch) ==
  \E k \in 1..(Len(optstring) - 1) : optstring[k] = ch /\ optstring[k + 1] = ":"

\* index of the next option element at or after k; argc when there is none
\* or when "--" comes first
RECURSIVE SkipNonOptions(_, _)
SkipNonOptions(argv, k) ==
  IF k >= Len(argv) THEN Len(argv)
  ELSE IF Arg(argv, k) = DashDash THEN Len(argv)
  ELSE IF IsOptionElement(Arg(argv, k)) THEN k
  ELSE SkipNonOptions(argv, k + 1)

\* one call of getopt(argc, argv, optstring) with opterr = 0.  nextchar is the
\* position inside the current element (0: start a new element)
getopt(argv, optstring, optind, nextchar) ==
  LET i == IF nextchar = 0 THEN SkipNonOptions(argv, optind) ELSE optind
      j == IF nextchar = 0 THEN 2 ELSE nextchar
  IN IF i >= Len(argv)
     THEN [c |-> END, optarg |-> <<>>, optopt |-> "", optind |-> i, nextchar |-> 0]
     ELSE
       LET tok  == Arg(argv, i)
           ch   == tok[j]
           last == (j = Len(tok))
       IN IF ~HasOption(optstring, ch)
          THEN [c |-> QUESTION, optarg |-> <<>>, optopt |-> ch,
                optind |-> IF last THEN i + 1 ELSE i,
                nextchar |-> IF last THEN 0 ELSE j + 1]
          ELSE IF ~TakesArgument(optstring, ch)
          THEN [c |-> ch, optarg |-> <<>>, optopt |-> "",
                optind |-> IF last THEN i + 1 ELSE i,
                nextchar |-> IF last THEN 0 ELSE j + 1]
          ELSE IF ~last
          THEN [c |-> ch, optarg |-> SubSeq(tok, j + 1, Len(tok)), optopt |-> "",
                optind |-> i + 1, nextchar |-> 0]
          ELSE IF i + 1 >= Len(argv)
          THEN [c |-> QUESTION, optarg |-> <<>>, optopt |-> ch,
                optind |-> i + 1, nextchar |-> 0]
          ELSE [c |-> ch, optarg |-> Arg(argv, i + 1), optopt |-> "",
                optind |-> i + 2, nextchar |-> 0]

\* ------------------------------------------------------ argument_parser
\* locals of the meter branch before the getopt loop
MeterLocals ==
  [exited |-> FALSE, h_flag |-> FALSE, p_flag |-> FALSE, s_flag |-> FALSE,
   t_flag |-> FALSE, host_name |-> <<>>, port |-> 0, probe_size |-> 0,
   measurment_time |-> [num |-> 0, den |-> 1]]

\* the while ((c = getopt(...)) != -1) switch of the meter branch
RECURSIVE MeterOptions(_, _, _, _)
MeterOptions(argv, optind, nextchar, st) ==
  LET g == getopt(argv, METER_OPTSTRING, optind, nextchar)
  IN IF g.c = END THEN st
     ELSE IF g.c = "h"
     THEN MeterOptions(argv, g.optind, g.nextchar,
            [st EXCEPT !.h_flag = TRUE, !.host_name = g.optarg])
     ELSE IF g.c = "p"
     THEN MeterOptions(argv, g.optind, g.nextchar,
            [st EXCEPT !.p_flag = TRUE, !.port = ToUnsignedShort(atoi(g.optarg))])
     ELSE IF g.c = "s"
     THEN MeterOptions(argv, g.optind, g.nextchar,
            [st EXCEPT !.s_flag = TRUE, !.probe_size = ToSizeT(atoi(g.optarg))])
     ELSE IF g.c = "t"
     THEN MeterOptions(argv, g.optind, g.nextchar,
            [st EXCEPT !.t_flag = TRUE, !.measurment_time = atof(g.optarg)])
     ELSE [st EXCEPT !.exited = TRUE]

\* locals of the reflect branch before the getopt loop
ReflectLocals == [exited |-> FALSE, p_flag |-> FALSE, port |-> 0]

\* the reflect switch with the '?' and default cases falling through to the
\* next getopt call instead of exit(1)
RECURSIVE ReflectOptionsIgnoreUnknown(_, _, _, _)
ReflectOptionsIgnoreUnknown(argv, optind, nextchar, st) ==
  LET g == getopt(argv, REFLECT_OPTSTRING, optind, nextchar)
  IN IF g.c = END THEN st
     ELSE IF g.c = "p"
     THEN ReflectOptionsIgnoreUnknown(argv, g.optind, g.nextchar,
            [st EXCEPT !.p_flag = TRUE, !.port = ToUnsignedInt(atoi(g.optarg))])
     ELSE ReflectOptionsIgnoreUnknown(argv, g.optind, g.nextchar, st)

\* the while ((c = getopt(...)) != -1) switch of the reflect branch
RECURSIVE ReflectOptions(_, _, _, _)
ReflectOptions(argv, optind, nextchar, st) ==
  LET g == getopt(argv, REFLECT_OPTSTRING, optind, nextchar)
  IN IF g.c = END THEN st
     ELSE IF g.c = "p"
     THEN ReflectOptions(argv, g.optind, g.nextchar,
            [st EXCEPT !.p_flag = TRUE, !.port = ToUnsignedInt(atoi(g.optarg))])
     ELSE [st EXCEPT !.exited = TRUE]

NoConfig ==
  [m_host_name |-> <<>>, m_port |-> 0, m_probe_size |-> 0,
   m_measurment_time |-> [num |-> 0, den |-> 1]]

\* the result of argument_parser: kind "exit" (exit(1) inside the parser),
\* "nullptr", "Meter" or "Reflector", with the configuration built
argument_parser(argv) ==
  IF Len(argv) < MinArgc THEN [kind |-> "nullptr", cfg |-> NoConfig]
  ELSE IF Arg(argv, 1) = METER
  THEN LET st == MeterOptions(argv, 2, 0, MeterLocals)
       IN IF st.exited THEN [kind |-> "exit", cfg |-> NoConfig]
          ELSE IF st.h_flag /\ st.p_flag /\ st.s_flag /\ st.t_flag
          THEN [kind |-> "Meter",
                cfg |-> [m_host_name |-> st.host_name, m_port |-> st.port,
                         m_probe_size |-> st.probe_size,
                         m_measurment_time |-> st.measurment_time]]
          ELSE [kind |-> "nullptr", cfg |-> NoConfig]
  ELSE IF Arg(argv, 1) = REFLECT
  THEN LET st == ReflectOptions(argv, 2, 0, ReflectLocals)
       IN IF st.exited THEN [kind |-> "exit", cfg |-> NoConfig]
          ELSE IF st.p_flag
          THEN [kind |-> "Reflector", cfg |-> [NoConfig EXCEPT !.m_port = st.port]]
          ELSE [kind |-> "nullptr", cfg |-> NoConfig]
  ELSE [kind |-> "nullptr", cfg |-> NoConfig]


\* ------------------------------------------------------- command lines
OPT_H == <<"-", "h">>
OPT_P == <<"-", "p">>
OPT_S == <<"-", "s">>
OPT_T == <<"-", "t">>
OPT_X == <<"-", "x">>
HOST  == <<"a">>
TWO   == <<"2">>
ZERO  == <<"0">>
MINUS_ONE == <<"-", "1">>

\* an item is one or two words: an option with its argument, an option word
\* alone, or a word that is no option
Items ==
  { <<OPT_H, HOST>>, <<OPT_P, TWO>>,
    <<OPT_S, TWO>>, <<OPT_S, ZERO>>, <<OPT_S, MINUS_ONE>>, <<OPT_S, HOST>>,
    <<OPT_T, TWO>>, <<OPT_T, MINUS_ONE>>,
    <<OPT_P>>, <<OPT_X>>, <<TWO>> }

RECURSIVE Flatten(_)
Flatten(items) ==
  IF items = <<>> THEN <<>> ELSE Head(items) \o Flatten(Tail(items))

ModeWords == {METER, REFLECT, PING}

\* a command line: a mode word followed by at most MaxItems items, or the bare
\* program name
IsCommandLine(line) ==
  \/ line = <<PROG>>
  \/ \E m \in ModeWords, n \in 0..MaxItems :
       \E its \in [1..n -> Items] : line = <<PROG, m>> \o Flatten(its)

\* the command lines the runtime modes are exercised with
RunLines ==
  { <<PROG, REFLECT, OPT_P, TWO>>,
    <<PROG, REFLECT, OPT_P>>,
    <<PROG, PING, OPT_P, TWO>>,
    <<PROG, METER, OPT_H, HOST, OPT_P, TWO, OPT_S, TWO, OPT_T, TWO>>,
    <<PROG, METER, OPT_H, HOST, OPT_P, TWO, OPT_S, ZERO, OPT_T, ZERO>>,
    <<PROG, METER, OPT_H, HOST, OPT_P, TWO, OPT_S, MINUS_ONE, OPT_T, TWO>>,
    <<PROG, METER, OPT_H, HOST, OPT_P, TWO, OPT_S, TWO, OPT_X>> }

\* ---------------------------------------------------------------- state
VARIABLES
  argv,            \* the command line, argv[0] included
  pc,              \* where the process is
  mtrip,           \* what argument_parser returned
  exitStatus,      \* the exit status, once pc = "exited"
  interrupted,     \* the process ended in interrupt_handler
  socketCount,     \* SocketEntity objects constructed
  closeCount,      \* SocketEntity objects destroyed (socket closed)
  buffer,          \* Reflector::init's buffer
  origin,          \* per byte of buffer: who wrote it
  rcvd,            \* the datagram the last recv_message took from the network
  sent,            \* the datagram the last send_message handed to the network
  sendResult,      \* outcome of the send for the current datagram
  failedBefore,    \* some earlier echo send failed
  typed,           \* lines fgets has returned to the meter
  probesSent,      \* send_message calls completed by the meter
  recvsCompleted,  \* recv_message calls that returned to the meter
  inFlight         \* an echo for the last probe is on its way to the meter

vars == <<argv, pc, mtrip, exitStatus, interrupted, socketCount, closeCount,
          buffer, origin, rcvd, sent, sendResult, failedBefore,
          typed, probesSent, recvsCompleted, inFlight>>

reflectorVars == <<buffer, origin, rcvd, sent, sendResult, failedBefore>>
meterVars == <<typed, probesSent, recvsCompleted, inFlight>>

Byte == 0..MaxByte
Senders == 1..MaxSender

NoDatagram == [addr |-> 0, bytes |-> <<>>]

BytesOfLength(n) == [1..n -> Byte]

\* datagrams the network can deliver: empty ones and ones longer than the
\* buffer included
Datagrams ==
  { [addr |-> a, bytes |-> b] :
      a \in Senders, b \in UNION { BytesOfLength(n) : n \in 0..(BufferSize + 1) } }

ReflectorPcs == {"reflector_init", "reflect_recv", "reflect_send"}
MeterPcs == {"meter_init", "meter_fgets", "meter_send", "meter_recv", "meter_print"}

InitRest ==
  /\ pc = "main"
  /\ mtrip = [kind |-> "none", cfg |-> NoConfig]
  /\ exitStatus = 0
  /\ interrupted = FALSE
  /\ socketCount = 0
  /\ closeCount = 0
  /\ buffer = <<>>
  /\ origin = <<>>
  /\ rcvd = NoDatagram
  /\ sent = NoDatagram
  /\ sendResult = "none"
  /\ failedBefore = FALSE
  /\ typed = 0
  /\ probesSent = 0
  /\ recvsCompleted = 0
  /\ inFlight = FALSE

Init == argv \in RunLines /\ InitRest

InitArgs == IsCommandLine(argv) /\ InitRest

\* --------------------------------------------------------------- actions
\* exit(status): the process ends; automatic objects (the unique_ptr to the
\* SocketEntity in init's frame) are not destroyed
Exit(status) ==
  /\ pc' = "exited"
  /\ exitStatus' = status
  /\ UNCHANGED <<socketCount, closeCount>>

\* main up to the call of mtrip->init()
Main ==
  /\ pc = "main"
  /\ \E r \in {argument_parser(argv)} :
       /\ mtrip' = r
       /\ \/ r.kind = "exit" /\ Exit(GetoptExitStatus)
          \/ r.kind = "nullptr" /\ Exit(EXIT_FAILURE)
          \/ /\ r.kind = "Meter"
             /\ pc' = "meter_init"
             /\ UNCHANGED <<exitStatus, socketCount, closeCount>>
          \/ /\ r.kind = "Reflector"
             /\ pc' = "reflector_init"
             /\ UNCHANGED <<exitStatus, socketCount, closeCount>>
  /\ UNCHANGED <<argv, interrupted, reflectorVars, meterVars>>

\* interrupt_handler: SIGINT at any point after signal() was installed
Interrupt ==
  /\ pc \notin {"exited", "crashed"}
  /\ Exit(EXIT_SUCCESS)
  /\ interrupted' = TRUE
  /\ UNCHANGED <<argv, mtrip, reflectorVars, meterVars>>

\* recv_message(buffer, size): the first min(n, size) bytes of the datagram
\* overwrite the start of the buffer, the rest of the buffer is left alone
recv_message(buf, size, bytes) ==
  [i \in 1..Len(buf) |->
     IF i <= Len(bytes) /\ i <= size THEN bytes[i] ELSE buf[i]]

\* who wrote each byte of the buffer after a receive
recv_origin(org, size, bytes) ==
  [i \in 1..Len(org) |->
     IF i <= Len(bytes) /\ i <= size THEN "current"
     ELSE IF org[i] = "current" THEN "earlier" ELSE org[i]]

\* send_message(buffer, size): the datagram handed to the network, size bytes
send_message(buf, size) == SubSeq(buf, 1, size)

\* Reflector::init up to the loop: socket, setup_server, the buffer
ReflectorSetup ==
  /\ pc = "reflector_init"
  /\ socketCount' = socketCount + 1
  /\ buffer' \in BytesOfLength(BufferSize)
  /\ origin' = [i \in 1..BufferSize |-> "garbage"]
  /\ pc' = "reflect_recv"
  /\ UNCHANGED <<argv, mtrip, exitStatus, interrupted, closeCount,
                 rcvd, sent, sendResult, failedBefore, meterVars>>

\* socket->recv_message(buffer, sizeof(buffer)) returns with a datagram
ReflectorRecv ==
  /\ pc = "reflect_recv"
  /\ \E d \in Datagrams :
       /\ rcvd' = d
       /\ buffer' = recv_message(buffer, BufferSize, d.bytes)
       /\ origin' = recv_origin(origin, BufferSize, d.bytes)
  /\ sent' = NoDatagram
  /\ sendResult' = "none"
  /\ failedBefore' = (failedBefore \/ sendResult = "fail")
  /\ pc' = "reflect_send"
  /\ UNCHANGED <<argv, mtrip, exitStatus, interrupted, socketCount, closeCount,
                 meterVars>>

\* the echo send with a failed send ending the process
ReflectorSendFatal ==
  /\ pc = "reflect_send"
  /\ \E ok \in BOOLEAN :
       /\ sendResult' = IF ok THEN "ok" ELSE "fail"
       /\ sent' = IF ok THEN [addr |-> rcvd.addr,
                              bytes |-> send_message(buffer, BufferSize)]
                        ELSE NoDatagram
       /\ IF ok THEN pc' = "reflect_recv" /\ UNCHANGED <<exitStatus, socketCount, closeCount>>
                ELSE Exit(EXIT_FAILURE)
  /\ UNCHANGED <<argv, mtrip, interrupted,
                 buffer, origin, rcvd, failedBefore, meterVars>>

\* socket->send_message(buffer, sizeof(buffer)); its result is not looked at
ReflectorSend ==
  /\ pc = "reflect_send"
  /\ \E ok \in BOOLEAN :
       /\ sendResult' = IF ok THEN "ok" ELSE "fail"
       /\ sent' = IF ok THEN [addr |-> rcvd.addr,
                              bytes |-> send_message(buffer, BufferSize)]
                        ELSE NoDatagram
  /\ pc' = "reflect_recv"
  /\ UNCHANGED <<argv, mtrip, exitStatus, interrupted, socketCount, closeCount,
                 buffer, origin, rcvd, failedBefore, meterVars>>

\* Meter::init up to the loop: socket, setup_connection, char buffer[m_probe_size]
MeterSetup ==
  /\ pc = "meter_init"
  /\ socketCount' = socketCount + 1
  /\ IF SizeExceedsPtrdiffMax(mtrip.cfg.m_probe_size)
     THEN pc' \in {"meter_fgets", "crashed"}
     ELSE pc' = "meter_fgets"
  /\ UNCHANGED <<argv, mtrip, exitStatus, interrupted, closeCount,
                 reflectorVars, meterVars>>

\* bzero; printf; fgets returns with a line the operator typed
MeterFgets ==
  /\ pc = "meter_fgets"
  /\ typed < MaxProbes
  /\ typed' = typed + 1
  /\ pc' = "meter_send"
  /\ UNCHANGED <<argv, mtrip, exitStatus, interrupted, socketCount, closeCount,
                 reflectorVars, probesSent, recvsCompleted, inFlight>>

\* the probe send going back to the top of the loop without the receive
MeterSendNoWait ==
  /\ pc = "meter_send"
  /\ probesSent' = probesSent + 1
  /\ inFlight' \in BOOLEAN
  /\ pc' = "meter_fgets"
  /\ UNCHANGED <<argv, mtrip, exitStatus, interrupted, socketCount, closeCount,
                 reflectorVars, typed, recvsCompleted>>

\* socket->send_message(buffer, sizeof(buffer)); bzero
MeterSend ==
  /\ pc = "meter_send"
  /\ probesSent' = probesSent + 1
  /\ inFlight' \in BOOLEAN
  /\ pc' = "meter_recv"
  /\ UNCHANGED <<argv, mtrip, exitStatus, interrupted, socketCount, closeCount,
                 reflectorVars, typed, recvsCompleted>>

\* the network drops the echo
EchoLost ==
  /\ pc = "meter_recv"
  /\ inFlight
  /\ inFlight' = FALSE
  /\ UNCHANGED <<argv, pc, mtrip, exitStatus, interrupted, socketCount, closeCount,
                 reflectorVars, typed, probesSent, recvsCompleted>>

\* socket->recv_message(buffer, sizeof(buffer)) returns with the echo
MeterRecv ==
  /\ pc = "meter_recv"
  /\ inFlight
  /\ inFlight' = FALSE
  /\ recvsCompleted' = recvsCompleted + 1
  /\ pc' = "meter_print"
  /\ UNCHANGED <<argv, mtrip, exitStatus, interrupted, socketCount, closeCount,
                 reflectorVars, typed, probesSent>>

\* socket->recv_message(buffer, sizeof(buffer)) returns on its timeout
MeterRecvTimeout ==
  /\ pc = "meter_recv"
  /\ ~inFlight
  /\ recvsCompleted' = recvsCompleted + 1
  /\ pc' = "meter_print"
  /\ UNCHANGED <<argv, mtrip, exitStatus, interrupted, socketCount, closeCount,
                 reflectorVars, typed, probesSent, inFlight>>

\* cout << "Feedback: " << buffer; back to the top of the loop
MeterPrint ==
  /\ pc = "meter_print"
  /\ pc' = "meter_fgets"
  /\ UNCHANGED <<argv, mtrip, exitStatus, interrupted, socketCount, closeCount,
                 reflectorVars, meterVars>>

\* the steps of the two modes that wait for nothing outside the process
ProgramStep ==
  \/ ReflectorSetup
  \/ ReflectorSend
  \/ MeterSetup
  \/ MeterSend
  \/ MeterRecv
  \/ MeterRecvTimeout
  \/ MeterPrint

Next ==
  \/ Main
  \/ Interrupt
  \/ ReflectorSetup
  \/ ReflectorRecv
  \/ ReflectorSend
  \/ MeterSetup
  \/ MeterFgets
  \/ MeterSend
  \/ EchoLost
  \/ MeterRecv
  \/ MeterRecvTimeout
  \/ MeterPrint

Spec == Init /\ [][Next]_vars

ArgSpec == InitArgs /\ [][Next]_vars

\* once a mode runs, the process takes its own steps whenever it can; the
\* operator, the network and the interrupt are under no obligation
FairSpec == Init /\ [][Next]_vars /\ WF_vars(ProgramStep)

TypeOK ==
  /\ pc \in {"main", "exited", "crashed"} \cup ReflectorPcs \cup MeterPcs
  /\ socketCount \in 0..1
  /\ sendResult \in {"none", "ok", "fail"}


\* ---------------------------------------------------------------- claims

\* C1: for every datagram of n > 0 bytes the reflector receives, the echo it
\* sends for that datagram has exactly n bytes.
EchoLengthEqualsReceived ==
  (sendResult = "ok" /\ Len(rcvd.bytes) > 0) => Len(sent.bytes) = Len(rcvd.bytes)

\* C2: a meter run always terminates: once the meter is running, the process
\* eventually ends, also when an echo is lost.
MeterRunTerminates ==
  (pc \in MeterPcs) ~> (pc \in {"exited", "crashed"})

\* C4: no byte of an earlier datagram ever appears in a later echo: every byte
\* of an echo is a byte the current datagram wrote.
NoEarlierBytesInEcho ==
  sendResult = "ok" => \A i \in 1..Len(sent.bytes) : origin[i] # "earlier"

\* C5: when an interrupt ends the process while a loop is active, the socket
\* that loop created has been closed exactly once.
InterruptClosesSocketOnce ==
  (pc = "exited" /\ interrupted /\ socketCount = 1) => closeCount = 1

\* C6: an interrupt never ends the process mid-datagram: not between the
\* reflector's receive and its echo, nor between the meter's probe and the
\* processing of the echo.
InterruptCompletesExchange ==
  [][(pc \in {"reflect_send", "meter_recv", "meter_print"}) => (pc' # "exited")]_vars

\* C7: the reflector leaves its loop only by the interrupt: after a failed
\* echo send it is back at the receive, and every datagram received after
\* that is handed to the send, whose echo goes to that datagram's sender.
ReflectorKeepsListening ==
  [][(pc \in {"reflect_recv", "reflect_send"}) =>
       /\ IF interrupted' THEN pc' = "exited"
                          ELSE pc' \in {"reflect_recv", "reflect_send"}
       /\ (pc = "reflect_send" /\ ~interrupted') =>
            /\ pc' = "reflect_recv"
            /\ sendResult' \in {"ok", "fail"}
            /\ (sendResult' = "ok" => sent'.addr = rcvd.addr)
       /\ (pc = "reflect_recv" /\ ~interrupted') =>
            /\ pc' = "reflect_send"
            /\ rcvd' \in Datagrams]_vars

\* an echo went out for a datagram received after an earlier echo had failed
ReflectorEchoedAfterFailure ==
  failedBefore /\ sendResult = "ok" /\ pc = "reflect_recv" /\ sent.addr = rcvd.addr

\* the options a mode requires, which are also the ones it knows
RequiredOptions(mode) ==
  IF mode = METER THEN {"h", "p", "s", "t"} ELSE {"p"}

\* the options of a command line from word k on, read by the utility syntax
\* conventions: a word that starts with "-" is an option, the rest of the word
\* or else the next word is its argument
RECURSIVE OptionScan(_, _)
OptionScan(line, k) ==
  IF k >= Len(line) THEN <<>>
  ELSE LET w == Arg(line, k)
       IN IF ~IsOptionElement(w) THEN OptionScan(line, k + 1)
          ELSE IF Len(w) > 2
          THEN <<[ch |-> w[2], hasArg |-> TRUE]>> \o OptionScan(line, k + 1)
          ELSE IF k + 1 >= Len(line)
          THEN <<[ch |-> w[2], hasArg |-> FALSE]>>
          ELSE <<[ch |-> w[2], hasArg |-> TRUE]>> \o OptionScan(line, k + 2)

BadMode(line) == Len(line) < 2 \/ line[2] \notin {METER, REFLECT}

MissingRequired(line) ==
  LET opts == OptionScan(line, 2)
  IN \E r \in RequiredOptions(line[2]) : \A i \in 1..Len(opts) : opts[i].ch # r

LacksArgument(line) ==
  LET opts == OptionScan(line, 2)
  IN \E i \in 1..Len(opts) : ~opts[i].hasArg

UnknownOption(line) ==
  LET opts == OptionScan(line, 2)
  IN \E i \in 1..Len(opts) : opts[i].ch \notin RequiredOptions(line[2])

InvalidCommandLine(line) ==
  \/ BadMode(line)
  \/ MissingRequired(line)
  \/ LacksArgument(line)
  \/ UnknownOption(line)

\* C8: for every command line with a mode word that is neither meter nor
\* reflect, a missing required option, an option without its argument or an
\* unknown option, init() is never called, no socket is ever created, and the
\* process that ends on its own ends with a non-zero status.
InvalidCommandLineRejected ==
  InvalidCommandLine(argv) =>
    /\ pc \in {"main", "exited"}
    /\ socketCount = 0
    /\ (pc = "exited" /\ ~interrupted) => exitStatus # 0

\* a command line with a good mode word and the required options, turned down
\* inside the getopt loop
InvalidCommandLineExited ==
  /\ ~BadMode(argv)
  /\ ~MissingRequired(argv)
  /\ LacksArgument(argv) \/ UnknownOption(argv)
  /\ pc = "exited"
  /\ ~interrupted
  /\ exitStatus # 0
  /\ socketCount = 0

\* C9: whenever Meter::init runs, the probe size is > 0 and the measurement
\* duration is > 0.
MeterStartsValidated ==
  pc \in MeterPcs =>
    /\ SizeIsPositive(mtrip.cfg.m_probe_size)
    /\ mtrip.cfg.m_measurment_time.num > 0

\* C10: the meter is stop-and-wait: the probes sent minus the receives that
\* returned is 0 or 1, and it is 1 exactly while the meter is between a send
\* and the return of the receive that follows it.
StopAndWait ==
  /\ probesSent - recvsCompleted \in {0, 1}
  /\ (pc \in MeterPcs /\ probesSent - recvsCompleted = 1) <=> (pc = "meter_recv")

\* the second probe is out, the first receive has returned
SecondProbeOutstanding ==
  pc = "meter_recv" /\ probesSent = 2 /\ recvsCompleted = 1

====
